---------------------------- MODULE Spec2Model ----------------------------
(***************************************************************************)
(* The RSocket binary framing codec of rsocket-core                        *)
(* (RSocketBinaryFraming, RSocketEncoding, RSocketBufferUtils) as a state  *)
(* machine: a frame is serialized, the buffer is parsed back, and a        *)
(* stream of length-prefixed frames is fed to deserializeFrames.  Smaller  *)
(* machines run writeUint24 / readUint24, writeHeader and the head of      *)
(* deserializeFrame, and deserializeFrames on raw bytes.                   *)
(*                                                                         *)
(* Values.  A JS string is [str |-> <<code points>>], a ByteBuffer is      *)
(* [bytes, offset, limit], null is [null |-> TRUE], a thrown exception is  *)
(* [error |-> kind].                                                       *)
(*                                                                         *)
(* ByteBuffer (the bytebuffer package the sources import).  A ByteBuffer   *)
(* is a backing array with an offset and a limit.  slice(begin, end)       *)
(* clones the instance with offset = begin and limit = end over the SAME   *)
(* backing array, and every read or write that is given an explicit        *)
(* offset argument addresses the backing array absolutely (it is only      *)
(* checked against the backing array's byteLength); a write past the       *)
(* capacity resizes the backing array.  toUTF8() and copyTo() work on      *)
(* offset..limit resp. the given source range.                              *)
(*                                                                         *)
(* TLC integers are 32-bit signed: every integer of the model stays in     *)
(* -2^31 .. 2^31-1, and a 32-bit word with the top bit set is written from *)
(* the negative number with the same two's complement bytes.               *)
(***************************************************************************)
EXTENDS Integers, Sequences, FiniteSets, TLC

VARIABLES
    pc,         \* where the caller is
    frame,      \* the frame handed to a serializer
    encoders,   \* the Encoders handed to the calls (null: the default)
    buffer,     \* the ByteBuffer a serializer returned / a parser is given
    result,     \* what the last parser call returned or threw
    stream,     \* the frames a peer wrote on the connection
    input,      \* the bytes of the connection: the length-prefixed frames
    fed,        \* how many bytes of input the transport has delivered
    loopOffset, \* deserializeFrames: the local offset
    frames,     \* deserializeFrames: the local frames
    received,   \* the frames every returned deserializeFrames call yielded
    call        \* the arguments of a call of writeUint24

vars == <<pc, frame, encoders, buffer, result, stream, input, fed,
          loopOffset, frames, received, call>>

codecVars == <<pc, frame, encoders, buffer, result>>

framerVars == <<stream, input, fed, loopOffset, frames, received>>

---------------------------------------------------------------------------
(* Bounds of the model. *)

\* longest string / byte content of an optional field drawn as an input
MaxLen == 1

\* most frames a peer writes on one connection
MaxFrames == 2

\* capacity of the buffers that writeUint24 is called on
MaxCapacity == 4

---------------------------------------------------------------------------
(* Values and exceptions. *)

null == [null |-> TRUE]

isNull(value) == "null" \in DOMAIN value

isString(value) == "str" \in DOMAIN value

isByteBuffer(value) == "bytes" \in DOMAIN value

\* fbjs invariant(false, ...) throws
InvariantViolation == [error |-> "InvariantViolation"]

\* bytebuffer throws RangeError for an offset outside the backing array,
\* a bad slice range, or malformed UTF-8
RangeError == [error |-> "RangeError"]

isError(value) == "error" \in DOMAIN value

---------------------------------------------------------------------------
(* ByteBuffer primitives. *)

capacity(bb) == Len(bb.bytes)

allocate(n) == [bytes |-> [i \in 1..n |-> 0], offset |-> 0, limit |-> n]

wrap(bs) == [bytes |-> bs, offset |-> 0, limit |-> Len(bs)]

\* the bytes a view stands for: offset..limit of its backing array
contents(bb) == SubSeq(bb.bytes, bb.offset + 1, bb.limit)

\* the assertion of slice(begin, end)
sliceInRange(bb, begin, end) ==
    /\ 0 <= begin
    /\ begin <= end
    /\ end <= capacity(bb)

slice(bb, begin, end) == [bytes |-> bb.bytes, offset |-> begin, limit |-> end]

\* the assertion of read*(offset): offset + n <= buffer.byteLength
canRead(bb, offset, n) == offset >= 0 /\ offset + n <= capacity(bb)

\* write the bytes bs at the absolute offset, growing the backing array as
\* ByteBuffer.resize does (twice the capacity, or just enough)
writeBytes(bb, bs, offset) ==
    LET cap == capacity(bb)
        end == offset + Len(bs)
        newcap == IF end <= cap THEN cap
                  ELSE IF 2 * cap > end THEN 2 * cap ELSE end
        grown == IF newcap = cap THEN bb.bytes
                 ELSE bb.bytes \o [i \in 1..(newcap - cap) |-> 0]
    IN  [bb EXCEPT !.bytes =
            SubSeq(grown, 1, offset) \o bs \o SubSeq(grown, end + 1, newcap)]

\* byte k (0 = lowest) of a non-negative integer
ByteOf(value, k) == (value \div (256 ^ k)) % 256

\* the four big-endian bytes of value mod 2^32, value in -2^31 .. 2^31-1
Word32(value) ==
    IF value >= 0
    THEN <<ByteOf(value, 3), ByteOf(value, 2), ByteOf(value, 1), ByteOf(value, 0)>>
    ELSE LET w == -(value + 1)
         IN  <<255 - ByteOf(w, 3), 255 - ByteOf(w, 2),
               255 - ByteOf(w, 1), 255 - ByteOf(w, 0)>>

writeUint8(bb, value, offset) == writeBytes(bb, <<value % 256>>, offset)

writeUint16(bb, value, offset) ==
    writeBytes(bb, <<(value \div 256) % 256, value % 256>>, offset)

writeInt32(bb, value, offset) == writeBytes(bb, Word32(value), offset)

writeUint32(bb, value, offset) == writeBytes(bb, Word32(value), offset)

\* Long.fromNumber(value) for 0 <= value < 2^31
writeUint64(bb, value, offset) ==
    writeBytes(bb, <<0, 0, 0, 0>> \o Word32(value), offset)

readUint8(bb, offset) == bb.bytes[offset + 1]

readUint16(bb, offset) == readUint8(bb, offset) * 256 + readUint8(bb, offset + 1)

readInt16(bb, offset) ==
    LET u == readUint16(bb, offset)
    IN  IF u >= 32768 THEN u - 65536 ELSE u

readInt32(bb, offset) ==
    LET b0 == readUint8(bb, offset)
        low == readUint8(bb, offset + 1) * 65536
               + readUint8(bb, offset + 2) * 256
               + readUint8(bb, offset + 3)
    IN  IF b0 >= 128 THEN (b0 - 256) * 16777216 + low
        ELSE b0 * 16777216 + low

\* an unsigned word; the model only reads words below 2^31
readUint32(bb, offset) ==
    readUint8(bb, offset) * 16777216
    + readUint8(bb, offset + 1) * 65536
    + readUint8(bb, offset + 2) * 256
    + readUint8(bb, offset + 3)

\* readUint64(offset).toNumber(); the model only reads values below 2^31
readUint64(bb, offset) ==
    readUint32(bb, offset) * 65536 * 65536 + readUint32(bb, offset + 4)

\* bb.copyTo(target, targetOffset, sourceOffset, sourceLimit)
copyTo(bb, target, targetOffset, sourceOffset, sourceLimit) ==
    writeBytes(target, SubSeq(bb.bytes, sourceOffset + 1, sourceLimit), targetOffset)

---------------------------------------------------------------------------
(* UTF-8, as ByteBuffer.calculateUTF8Bytes / writeUTF8String / toUTF8 do   *)
(* it for code points below 0x800.                                         *)

utf8Char(cp) ==
    IF cp < 128 THEN <<cp>>
    ELSE <<192 + (cp \div 64), 128 + (cp % 64)>>

RECURSIVE encodeUTF8(_)
encodeUTF8(cps) ==
    IF cps = <<>> THEN <<>>
    ELSE utf8Char(Head(cps)) \o encodeUTF8(Tail(cps))

calculateUTF8Bytes(cps) == Len(encodeUTF8(cps))

\* what decodeUTF8 yields for a malformed or truncated sequence
Malformed == <<-1>>

RECURSIVE decodeUTF8(_)
decodeUTF8(bs) ==
    IF bs = <<>> THEN <<>>
    ELSE IF bs[1] < 128
    THEN LET rest == decodeUTF8(Tail(bs))
         IN  IF rest = Malformed THEN Malformed ELSE <<bs[1]>> \o rest
    ELSE IF /\ bs[1] >= 192 /\ bs[1] < 224 /\ Len(bs) >= 2
            /\ bs[2] >= 128 /\ bs[2] < 192
    THEN LET rest == decodeUTF8(Tail(Tail(bs)))
         IN  IF rest = Malformed THEN Malformed
             ELSE <<(bs[1] - 192) * 64 + (bs[2] - 128)>> \o rest
    ELSE Malformed

toUTF8(bb) ==
    LET cps == decodeUTF8(contents(bb))
    IN  IF cps = Malformed THEN RangeError ELSE [str |-> cps]

---------------------------------------------------------------------------
(* RSocketBufferUtils. *)

readUint24(bb, offset) ==
    LET val1 == readUint8(bb, offset) * 65536
        val2 == readUint8(bb, offset + 1) * 256
        val3 == readUint8(bb, offset + 2)
    IN  val1 + val2 + val3

\* writeUint24 with the three bytes in the reverse order
writeUint24_littleEndian(bb, value, offset) ==
    LET b1 == writeUint8(bb, value % 256, offset)
        b2 == writeUint8(b1, (value \div 256) % 256, offset + 1)
    IN  writeUint8(b2, value \div 65536, offset + 2)

writeUint24(bb, value, offset) ==
    LET b1 == writeUint8(bb, value \div 65536, offset)
        b2 == writeUint8(b1, (value \div 256) % 256, offset + 1)
    IN  writeUint8(b2, value % 256, offset + 2)

---------------------------------------------------------------------------
(* RSocketFrame: the constants the framing code imports.                   *)

FRAME_TYPES ==
    [SETUP |-> 1, LEASE |-> 2, KEEPALIVE |-> 3, REQUEST_RESPONSE |-> 4,
     REQUEST_FNF |-> 5, REQUEST_STREAM |-> 6, REQUEST_CHANNEL |-> 7,
     REQUEST_N |-> 8, CANCEL |-> 9, PAYLOAD |-> 10, ERROR |-> 11]

FLAGS_METADATA == 256

FLAGS_MASK == 1023

FRAME_TYPE_OFFFSET == 10

MAX_CODE == 2147483647

MAX_KEEPALIVE == 2147483647

MAX_LIFETIME == 2147483647

MAX_RESUME_LENGTH == 65535

\* a & b for non-negative integers
RECURSIVE BitAnd(_, _)
BitAnd(a, b) ==
    IF a = 0 \/ b = 0 THEN 0
    ELSE (a % 2) * (b % 2) + 2 * BitAnd(a \div 2, b \div 2)

isMetadata(flags) == BitAnd(flags, FLAGS_METADATA) = FLAGS_METADATA

---------------------------------------------------------------------------
(* RSocketEncoding: an Encoder is named by its kind, "UTF8" or "Buffer".   *)

\* the invariant of byteLength and encode: the value has the encoder's type
accepts(encoder, value) ==
    IF encoder = "UTF8" THEN isString(value) ELSE isByteBuffer(value)

byteLength(encoder, value) ==
    IF encoder = "UTF8" THEN calculateUTF8Bytes(value.str) ELSE value.limit

\* the buffer after the write, and the offset encode returns
encode(encoder, value, bb, offset) ==
    IF encoder = "UTF8"
    THEN LET bs == encodeUTF8(value.str)
         IN  [buffer |-> writeBytes(bb, bs, offset), offset |-> offset + Len(bs)]
    ELSE [buffer |-> copyTo(value, bb, offset, 0, value.limit),
          offset |-> offset + value.limit]

decode(encoder, bb, start, end) ==
    IF ~sliceInRange(bb, start, end) THEN RangeError
    ELSE IF encoder = "UTF8" THEN toUTF8(slice(bb, start, end))
    ELSE slice(bb, start, end)

Utf8Encoders ==
    [data |-> "UTF8", dataMimeType |-> "UTF8", message |-> "UTF8",
     metadata |-> "UTF8", metadataMimeType |-> "UTF8", resumeToken |-> "UTF8"]

BufferEncoders ==
    [data |-> "Buffer", dataMimeType |-> "UTF8", message |-> "UTF8",
     metadata |-> "Buffer", metadataMimeType |-> "UTF8", resumeToken |-> "Buffer"]

---------------------------------------------------------------------------
(* RSocketBinaryFraming: sizes. *)

FRAME_HEADER_SIZE == 6

UINT24_SIZE == 3

SETUP_FIXED_SIZE == 16

ERROR_FIXED_SIZE == 4

KEEPALIVE_FIXED_SIZE == 8

LEASE_FIXED_SIZE == 8

REQUEST_MANY_HEADER == 4

REQUEST_N_HEADER == 4

---------------------------------------------------------------------------
(* RSocketBinaryFraming: header and payload helpers. *)

\* writeHeader that keeps only the flag bits the protocol names
writeHeader_knownFlags(f, bb) ==
    LET b1 == writeInt32(bb, f.streamId, 0)
    IN  writeUint16(b1,
            f.type * (2 ^ FRAME_TYPE_OFFFSET) + BitAnd(f.flags, 992), 4)

\* the buffer after the header is written; the code returns FRAME_HEADER_SIZE
writeHeader(f, bb) ==
    LET b1 == writeInt32(bb, f.streamId, 0)
    IN  writeUint16(b1,
            f.type * (2 ^ FRAME_TYPE_OFFFSET) + BitAnd(f.flags, FLAGS_MASK), 4)

\* a field the encoder is asked to measure or write passes its invariant
encodable(encoder, value) == isNull(value) \/ accepts(encoder, value)

\* the encoder invariants getPayloadLength runs into
payloadEncodable(f, encs) ==
    /\ encodable(encs.data, f.data)
    /\ isMetadata(f.flags) => encodable(encs.metadata, f.metadata)

\* getPayloadLength without the three bytes of the metadata length
getPayloadLength_noLengthField(f, encs) ==
    LET dataLength == IF ~isNull(f.data)
                      THEN byteLength(encs.data, f.data) ELSE 0
        metaLength == IF isMetadata(f.flags)
                      THEN (IF ~isNull(f.metadata)
                            THEN byteLength(encs.metadata, f.metadata) ELSE 0)
                      ELSE 0
    IN  dataLength + metaLength

getPayloadLength(f, encs) ==
    LET dataLength == IF ~isNull(f.data)
                      THEN byteLength(encs.data, f.data) ELSE 0
        metaLength == IF isMetadata(f.flags)
                      THEN UINT24_SIZE
                           + (IF ~isNull(f.metadata)
                              THEN byteLength(encs.metadata, f.metadata) ELSE 0)
                      ELSE 0
    IN  dataLength + metaLength

\* the end of writePayload: the data goes where the metadata block ended
writePayloadData(f, encs, meta) ==
    IF ~isNull(f.data)
    THEN encode(encs.data, f.data, meta.buffer, meta.offset).buffer
    ELSE meta.buffer

\* the buffer after the payload section is written at offset
writePayload(f, bb, encs, offset) ==
    writePayloadData(f, encs,
        IF isMetadata(f.flags)
        THEN IF ~isNull(f.metadata)
             THEN encode(encs.metadata, f.metadata,
                         writeUint24(bb, byteLength(encs.metadata, f.metadata),
                                     offset),
                         offset + UINT24_SIZE)
             ELSE [buffer |-> writeUint24(bb, 0, offset),
                   offset |-> offset + UINT24_SIZE]
        ELSE [buffer |-> bb, offset |-> offset])

\* the last statement of readPayload: what is left up to the limit is data
readPayloadData(bb, f, encs, offset) ==
    IF offset < bb.limit
    THEN LET data == decode(encs.data, bb, offset, bb.limit)
         IN  IF isError(data) THEN data ELSE [f EXCEPT !.data = data]
    ELSE f

\* readPayload that gives an empty metadata, not null, for a zero length
readPayload_emptyMetadata(bb, f, encs, offset) ==
    IF isMetadata(f.flags)
    THEN IF ~canRead(bb, offset, UINT24_SIZE) THEN RangeError
         ELSE LET metaLength == readUint24(bb, offset)
                  start == offset + UINT24_SIZE
                  metadata == decode(encs.metadata, bb, start,
                                     start + metaLength)
              IN  IF isError(metadata) THEN metadata
                  ELSE readPayloadData(bb, [f EXCEPT !.metadata = metadata],
                                       encs, start + metaLength)
    ELSE readPayloadData(bb, f, encs, offset)

\* the frame with its payload read, or the exception a read throws
readPayload(bb, f, encs, offset) ==
    IF isMetadata(f.flags)
    THEN IF ~canRead(bb, offset, UINT24_SIZE) THEN RangeError
         ELSE LET metaLength == readUint24(bb, offset)
                  start == offset + UINT24_SIZE
              IN  IF metaLength > 0
                  THEN LET metadata == decode(encs.metadata, bb, start,
                                              start + metaLength)
                       IN  IF isError(metadata) THEN metadata
                           ELSE readPayloadData(bb,
                                    [f EXCEPT !.metadata = metadata],
                                    encs, start + metaLength)
                  ELSE readPayloadData(bb, f, encs, start)
    ELSE readPayloadData(bb, f, encs, offset)

---------------------------------------------------------------------------
(* RSocketBinaryFraming: the serializers. *)

\* length of an optional field: 0 when it is null
lengthOf(encoder, value) ==
    IF ~isNull(value) THEN byteLength(encoder, value) ELSE 0

\* "if (value != null) offset = encoder.encode(value, buffer, offset)"
encodeIfPresent(encoder, value, bb, offset) ==
    IF ~isNull(value) THEN encode(encoder, value, bb, offset)
    ELSE [buffer |-> bb, offset |-> offset]

\* a mime type: its length byte at at.offset, then its bytes
writeMimeType(encoder, value, at) ==
    encodeIfPresent(encoder, value,
        writeUint8(at.buffer, lengthOf(encoder, value), at.offset),
        at.offset + 1)

\* the end of serializeSetupFrame: the payload goes where the mime types ended
writeSetupPayload(f, encs, at) == writePayload(f, at.buffer, encs, at.offset)

\* the fixed fields of a SETUP frame up to the resume token length
writeSetupFixed(f, encs, bb) ==
    writeUint16(
        writeUint32(
            writeUint32(
                writeUint16(
                    writeUint16(writeHeader(f, bb), f.majorVersion,
                                FRAME_HEADER_SIZE),
                    f.minorVersion, FRAME_HEADER_SIZE + 2),
                f.keepAlive, FRAME_HEADER_SIZE + 4),
            f.lifetime, FRAME_HEADER_SIZE + 8),
        lengthOf(encs.resumeToken, f.resumeToken), FRAME_HEADER_SIZE + 12)

serializeSetupFrame(f, encs) ==
    IF ~(/\ encodable(encs.resumeToken, f.resumeToken)
         /\ encodable(encs.metadataMimeType, f.metadataMimeType)
         /\ encodable(encs.dataMimeType, f.dataMimeType)
         /\ payloadEncodable(f, encs))
    THEN InvariantViolation
    ELSE
    writeSetupPayload(f, encs,
        writeMimeType(encs.dataMimeType, f.dataMimeType,
            writeMimeType(encs.metadataMimeType, f.metadataMimeType,
                encodeIfPresent(encs.resumeToken, f.resumeToken,
                    writeSetupFixed(f, encs,
                        allocate(FRAME_HEADER_SIZE + SETUP_FIXED_SIZE
                                 + lengthOf(encs.resumeToken, f.resumeToken)
                                 + lengthOf(encs.metadataMimeType,
                                            f.metadataMimeType)
                                 + lengthOf(encs.dataMimeType, f.dataMimeType)
                                 + getPayloadLength(f, encs))),
                    FRAME_HEADER_SIZE + 14))))

serializeErrorFrame(f, encs) ==
    IF ~encodable(encs.message, f.message) THEN InvariantViolation
    ELSE
    LET messageLength == IF ~isNull(f.message)
                         THEN byteLength(encs.message, f.message) ELSE 0
        b0 == allocate(FRAME_HEADER_SIZE + ERROR_FIXED_SIZE + messageLength)
        b1 == writeHeader(f, b0)
        b2 == writeUint32(b1, f.code, FRAME_HEADER_SIZE)
    IN  IF ~isNull(f.message)
        THEN encode(encs.message, f.message, b2, FRAME_HEADER_SIZE + 4).buffer
        ELSE b2

serializeKeepAliveFrame(f, encs) ==
    IF ~encodable(encs.data, f.data) THEN InvariantViolation
    ELSE
    LET dataLength == IF ~isNull(f.data)
                      THEN byteLength(encs.data, f.data) ELSE 0
        b0 == allocate(FRAME_HEADER_SIZE + KEEPALIVE_FIXED_SIZE + dataLength)
        b1 == writeHeader(f, b0)
        b2 == writeUint64(b1, f.lastReceivedPosition, FRAME_HEADER_SIZE)
    IN  IF ~isNull(f.data)
        THEN encode(encs.data, f.data, b2, FRAME_HEADER_SIZE + 8).buffer
        ELSE b2

serializeLeaseFrame(f, encs) ==
    IF ~encodable(encs.metadata, f.metadata) THEN InvariantViolation
    ELSE
    LET metaLength == IF ~isNull(f.metadata)
                      THEN byteLength(encs.metadata, f.metadata) ELSE 0
        b0 == allocate(FRAME_HEADER_SIZE + LEASE_FIXED_SIZE + metaLength)
        b1 == writeHeader(f, b0)
        b2 == writeUint32(b1, f.ttl, FRAME_HEADER_SIZE)
        b3 == writeUint32(b2, f.requestCount, FRAME_HEADER_SIZE + 4)
    IN  IF ~isNull(f.metadata)
        THEN encode(encs.metadata, f.metadata, b3, FRAME_HEADER_SIZE + 8).buffer
        ELSE b3

serializeRequestFrame(f, encs) ==
    IF ~payloadEncodable(f, encs) THEN InvariantViolation
    ELSE
    LET payloadLength == getPayloadLength(f, encs)
        b0 == allocate(FRAME_HEADER_SIZE + payloadLength)
        b1 == writeHeader(f, b0)
    IN  writePayload(f, b1, encs, FRAME_HEADER_SIZE)

serializeRequestManyFrame(f, encs) ==
    IF ~payloadEncodable(f, encs) THEN InvariantViolation
    ELSE
    LET payloadLength == getPayloadLength(f, encs)
        b0 == allocate(FRAME_HEADER_SIZE + REQUEST_MANY_HEADER + payloadLength)
        b1 == writeHeader(f, b0)
        b2 == writeUint32(b1, f.requestN, FRAME_HEADER_SIZE)
    IN  writePayload(f, b2, encs, FRAME_HEADER_SIZE + 4)

serializeRequestNFrame(f, encs) ==
    LET b0 == allocate(FRAME_HEADER_SIZE + REQUEST_N_HEADER)
        b1 == writeHeader(f, b0)
    IN  writeUint32(b1, f.requestN, FRAME_HEADER_SIZE)

serializeCancelFrame(f, encs) ==
    writeHeader(f, allocate(FRAME_HEADER_SIZE))

serializePayloadFrame(f, encs) ==
    IF ~payloadEncodable(f, encs) THEN InvariantViolation
    ELSE
    LET payloadLength == getPayloadLength(f, encs)
        b0 == allocate(FRAME_HEADER_SIZE + payloadLength)
        b1 == writeHeader(f, b0)
    IN  writePayload(f, b1, encs, FRAME_HEADER_SIZE)

\* the buffer, or the exception thrown
serializeFrame(f, encs0) ==
    LET encs == IF isNull(encs0) THEN Utf8Encoders ELSE encs0
    IN  CASE f.type = FRAME_TYPES.SETUP -> serializeSetupFrame(f, encs)
          [] f.type = FRAME_TYPES.PAYLOAD -> serializePayloadFrame(f, encs)
          [] f.type = FRAME_TYPES.ERROR -> serializeErrorFrame(f, encs)
          [] f.type = FRAME_TYPES.KEEPALIVE -> serializeKeepAliveFrame(f, encs)
          [] f.type \in {FRAME_TYPES.REQUEST_FNF, FRAME_TYPES.REQUEST_RESPONSE} ->
                serializeRequestFrame(f, encs)
          [] f.type \in {FRAME_TYPES.REQUEST_STREAM, FRAME_TYPES.REQUEST_CHANNEL} ->
                serializeRequestManyFrame(f, encs)
          [] f.type = FRAME_TYPES.REQUEST_N -> serializeRequestNFrame(f, encs)
          [] f.type = FRAME_TYPES.CANCEL -> serializeCancelFrame(f, encs)
          [] f.type = FRAME_TYPES.LEASE -> serializeLeaseFrame(f, encs)
          [] OTHER -> InvariantViolation

---------------------------------------------------------------------------
(* RSocketBinaryFraming: the deserializers.  Each yields the frame, or the *)
(* exception of the first statement that throws.                           *)

deserializeSetupFrame(bb, streamId, flags, encs) ==
    IF streamId # 0 THEN InvariantViolation
    ELSE IF ~canRead(bb, FRAME_HEADER_SIZE, 8) THEN RangeError
    ELSE
    LET majorVersion == readUint16(bb, FRAME_HEADER_SIZE)
        minorVersion == readUint16(bb, FRAME_HEADER_SIZE + 2)
        keepAlive == readInt32(bb, FRAME_HEADER_SIZE + 4)
    IN
    IF ~(keepAlive >= 0 /\ keepAlive <= MAX_KEEPALIVE) THEN InvariantViolation
    ELSE IF ~canRead(bb, FRAME_HEADER_SIZE + 8, 4) THEN RangeError
    ELSE
    LET lifetime == readInt32(bb, FRAME_HEADER_SIZE + 8) IN
    IF ~(lifetime >= 0 /\ lifetime <= MAX_LIFETIME) THEN InvariantViolation
    ELSE IF ~canRead(bb, FRAME_HEADER_SIZE + 12, 2) THEN RangeError
    ELSE
    LET resumeTokenLength == readInt16(bb, FRAME_HEADER_SIZE + 12) IN
    IF ~(resumeTokenLength >= 0 /\ resumeTokenLength <= MAX_RESUME_LENGTH)
    THEN InvariantViolation
    ELSE
    LET tokenStart == FRAME_HEADER_SIZE + 14
        resumeToken == decode(encs.resumeToken, bb, tokenStart,
                              tokenStart + resumeTokenLength)
        mmtLenAt == tokenStart + resumeTokenLength
    IN
    IF isError(resumeToken) THEN resumeToken
    ELSE IF ~canRead(bb, mmtLenAt, 1) THEN RangeError
    ELSE
    LET metadataMimeTypeLength == readUint8(bb, mmtLenAt)
        metadataMimeType == decode(encs.metadataMimeType, bb, mmtLenAt + 1,
                                   mmtLenAt + 1 + metadataMimeTypeLength)
        dmtLenAt == mmtLenAt + 1 + metadataMimeTypeLength
    IN
    IF isError(metadataMimeType) THEN metadataMimeType
    ELSE IF ~canRead(bb, dmtLenAt, 1) THEN RangeError
    ELSE
    LET dataMimeTypeLength == readUint8(bb, dmtLenAt)
        dataMimeType == decode(encs.dataMimeType, bb, dmtLenAt + 1,
                               dmtLenAt + 1 + dataMimeTypeLength)
    IN
    IF isError(dataMimeType) THEN dataMimeType
    ELSE readPayload(bb,
            [data |-> null, dataMimeType |-> dataMimeType, flags |-> flags,
             keepAlive |-> keepAlive, lifetime |-> lifetime,
             majorVersion |-> majorVersion, metadata |-> null,
             metadataMimeType |-> metadataMimeType,
             minorVersion |-> minorVersion, resumeToken |-> resumeToken,
             streamId |-> streamId, type |-> FRAME_TYPES.SETUP],
            encs, dmtLenAt + 1 + dataMimeTypeLength)

deserializeErrorFrame(bb, streamId, flags, encs) ==
    IF ~canRead(bb, FRAME_HEADER_SIZE, 4) THEN RangeError
    ELSE
    LET code == readInt32(bb, FRAME_HEADER_SIZE)
        offset == FRAME_HEADER_SIZE + 4
        messageLength == bb.limit - offset
        message == IF messageLength > 0
                   THEN decode(encs.message, bb, offset, offset + messageLength)
                   ELSE [str |-> <<>>]
    IN  IF ~(code >= 0 /\ code <= MAX_CODE) THEN InvariantViolation
        ELSE IF isError(message) THEN message
        ELSE [code |-> code, flags |-> flags, message |-> message,
              streamId |-> streamId, type |-> FRAME_TYPES.ERROR]

deserializeKeepAliveFrame(bb, streamId, flags, encs) ==
    IF streamId # 0 THEN InvariantViolation
    ELSE IF ~canRead(bb, FRAME_HEADER_SIZE, 8) THEN RangeError
    ELSE
    LET lastReceivedPosition == readUint64(bb, FRAME_HEADER_SIZE)
        offset == FRAME_HEADER_SIZE + 8
        data == IF offset < bb.limit
                THEN decode(encs.data, bb, offset, bb.limit) ELSE null
    IN  IF isError(data) THEN data
        ELSE [data |-> data, flags |-> flags,
              lastReceivedPosition |-> lastReceivedPosition,
              streamId |-> streamId, type |-> FRAME_TYPES.KEEPALIVE]

deserializeLeaseFrame(bb, streamId, flags, encs) ==
    IF streamId # 0 THEN InvariantViolation
    ELSE IF ~canRead(bb, FRAME_HEADER_SIZE, 8) THEN RangeError
    ELSE
    LET ttl == readUint32(bb, FRAME_HEADER_SIZE)
        requestCount == readUint32(bb, FRAME_HEADER_SIZE + 4)
        offset == FRAME_HEADER_SIZE + 8
        metadata == IF offset < bb.limit
                    THEN decode(encs.metadata, bb, offset, bb.limit) ELSE null
    IN  IF isError(metadata) THEN metadata
        ELSE [flags |-> flags, metadata |-> metadata,
              requestCount |-> requestCount, streamId |-> streamId,
              ttl |-> ttl, type |-> FRAME_TYPES.LEASE]

deserializeRequestFnfFrame(bb, streamId, flags, encs) ==
    IF ~(streamId > 0) THEN InvariantViolation
    ELSE readPayload(bb,
            [data |-> null, flags |-> flags, metadata |-> null,
             streamId |-> streamId, type |-> FRAME_TYPES.REQUEST_FNF],
            encs, FRAME_HEADER_SIZE)

deserializeRequestResponseFrame(bb, streamId, flags, encs) ==
    IF ~(streamId > 0) THEN InvariantViolation
    ELSE readPayload(bb,
            [data |-> null, flags |-> flags, metadata |-> null,
             streamId |-> streamId, type |-> FRAME_TYPES.REQUEST_RESPONSE],
            encs, FRAME_HEADER_SIZE)

deserializeRequestStreamFrame(bb, streamId, flags, encs) ==
    IF ~(streamId > 0) THEN InvariantViolation
    ELSE IF ~canRead(bb, FRAME_HEADER_SIZE, 4) THEN RangeError
    ELSE
    LET requestN == readInt32(bb, FRAME_HEADER_SIZE) IN
    IF ~(requestN > 0) THEN InvariantViolation
    ELSE readPayload(bb,
            [data |-> null, flags |-> flags, metadata |-> null,
             requestN |-> requestN, streamId |-> streamId,
             type |-> FRAME_TYPES.REQUEST_STREAM],
            encs, FRAME_HEADER_SIZE + 4)

\* deserializeRequestChannelFrame that lets a requestN of 0 through
deserializeRequestChannelFrame_zeroRequestN(bb, streamId, flags, encs) ==
    IF ~(streamId > 0) THEN InvariantViolation
    ELSE IF ~canRead(bb, FRAME_HEADER_SIZE, 4) THEN RangeError
    ELSE
    LET requestN == readInt32(bb, FRAME_HEADER_SIZE) IN
    IF ~(requestN >= 0) THEN InvariantViolation
    ELSE readPayload(bb,
            [data |-> null, flags |-> flags, metadata |-> null,
             requestN |-> requestN, streamId |-> streamId,
             type |-> FRAME_TYPES.REQUEST_CHANNEL],
            encs, FRAME_HEADER_SIZE + 4)

deserializeRequestChannelFrame(bb, streamId, flags, encs) ==
    IF ~(streamId > 0) THEN InvariantViolation
    ELSE IF ~canRead(bb, FRAME_HEADER_SIZE, 4) THEN RangeError
    ELSE
    LET requestN == readInt32(bb, FRAME_HEADER_SIZE) IN
    IF ~(requestN > 0) THEN InvariantViolation
    ELSE readPayload(bb,
            [data |-> null, flags |-> flags, metadata |-> null,
             requestN |-> requestN, streamId |-> streamId,
             type |-> FRAME_TYPES.REQUEST_CHANNEL],
            encs, FRAME_HEADER_SIZE + 4)

\* deserializeRequestNFrame without the stream id rule
deserializeRequestNFrame_anyStream(bb, streamId, flags, encs) ==
    IF ~canRead(bb, FRAME_HEADER_SIZE, 4) THEN RangeError
    ELSE
    LET requestN == readInt32(bb, FRAME_HEADER_SIZE) IN
    IF ~(requestN > 0) THEN InvariantViolation
    ELSE [flags |-> flags, requestN |-> requestN, streamId |-> streamId,
          type |-> FRAME_TYPES.REQUEST_N]

deserializeRequestNFrame(bb, streamId, flags, encs) ==
    IF ~(streamId > 0) THEN InvariantViolation
    ELSE IF ~canRead(bb, FRAME_HEADER_SIZE, 4) THEN RangeError
    ELSE
    LET requestN == readInt32(bb, FRAME_HEADER_SIZE) IN
    IF ~(requestN > 0) THEN InvariantViolation
    ELSE [flags |-> flags, requestN |-> requestN, streamId |-> streamId,
          type |-> FRAME_TYPES.REQUEST_N]

deserializeCancelFrame(bb, streamId, flags, encs) ==
    IF ~(streamId > 0) THEN InvariantViolation
    ELSE [flags |-> flags, streamId |-> streamId, type |-> FRAME_TYPES.CANCEL]

deserializePayloadFrame(bb, streamId, flags, encs) ==
    IF ~(streamId > 0) THEN InvariantViolation
    ELSE readPayload(bb,
            [data |-> null, flags |-> flags, metadata |-> null,
             streamId |-> streamId, type |-> FRAME_TYPES.PAYLOAD],
            encs, FRAME_HEADER_SIZE)

\* the head of deserializeFrame: the stream id, the type and the flags, or
\* the exception thrown
readHeader(bb) ==
    IF ~canRead(bb, 0, 4) THEN RangeError
    ELSE IF ~(readInt32(bb, 0) >= 0) THEN InvariantViolation
    ELSE IF ~canRead(bb, 4, 2) THEN RangeError
    ELSE [streamId |-> readInt32(bb, 0),
          type |-> readUint16(bb, 4) \div (2 ^ FRAME_TYPE_OFFFSET),
          flags |-> BitAnd(readUint16(bb, 4), FLAGS_MASK)]

\* deserializeFrame without the check of the stream id's sign
deserializeFrame_noSignCheck(bb, encs0) ==
    LET encs == IF isNull(encs0) THEN Utf8Encoders ELSE encs0 IN
    IF ~canRead(bb, 0, 4) THEN RangeError
    ELSE
    LET streamId == readInt32(bb, 0) IN
    IF ~canRead(bb, 4, 2) THEN RangeError
    ELSE
    LET typeAndFlags == readUint16(bb, 4)
        type == typeAndFlags \div (2 ^ FRAME_TYPE_OFFFSET)
        flags == BitAnd(typeAndFlags, FLAGS_MASK)
    IN  CASE type = FRAME_TYPES.SETUP ->
                deserializeSetupFrame(bb, streamId, flags, encs)
          [] type = FRAME_TYPES.PAYLOAD ->
                deserializePayloadFrame(bb, streamId, flags, encs)
          [] type = FRAME_TYPES.ERROR ->
                deserializeErrorFrame(bb, streamId, flags, encs)
          [] type = FRAME_TYPES.KEEPALIVE ->
                deserializeKeepAliveFrame(bb, streamId, flags, encs)
          [] type = FRAME_TYPES.REQUEST_FNF ->
                deserializeRequestFnfFrame(bb, streamId, flags, encs)
          [] type = FRAME_TYPES.REQUEST_RESPONSE ->
                deserializeRequestResponseFrame(bb, streamId, flags, encs)
          [] type = FRAME_TYPES.REQUEST_STREAM ->
                deserializeRequestStreamFrame(bb, streamId, flags, encs)
          [] type = FRAME_TYPES.REQUEST_CHANNEL ->
                deserializeRequestChannelFrame(bb, streamId, flags, encs)
          [] type = FRAME_TYPES.REQUEST_N ->
                deserializeRequestNFrame(bb, streamId, flags, encs)
          [] type = FRAME_TYPES.CANCEL ->
                deserializeCancelFrame(bb, streamId, flags, encs)
          [] type = FRAME_TYPES.LEASE ->
                deserializeLeaseFrame(bb, streamId, flags, encs)
          [] OTHER -> InvariantViolation

\* the frame, or the exception thrown
deserializeFrame(bb, encs0) ==
    LET encs == IF isNull(encs0) THEN Utf8Encoders ELSE encs0 IN
    IF ~canRead(bb, 0, 4) THEN RangeError
    ELSE
    LET streamId == readInt32(bb, 0) IN
    IF ~(streamId >= 0) THEN InvariantViolation
    ELSE IF ~canRead(bb, 4, 2) THEN RangeError
    ELSE
    LET typeAndFlags == readUint16(bb, 4)
        type == typeAndFlags \div (2 ^ FRAME_TYPE_OFFFSET)
        flags == BitAnd(typeAndFlags, FLAGS_MASK)
    IN  CASE type = FRAME_TYPES.SETUP ->
                deserializeSetupFrame(bb, streamId, flags, encs)
          [] type = FRAME_TYPES.PAYLOAD ->
                deserializePayloadFrame(bb, streamId, flags, encs)
          [] type = FRAME_TYPES.ERROR ->
                deserializeErrorFrame(bb, streamId, flags, encs)
          [] type = FRAME_TYPES.KEEPALIVE ->
                deserializeKeepAliveFrame(bb, streamId, flags, encs)
          [] type = FRAME_TYPES.REQUEST_FNF ->
                deserializeRequestFnfFrame(bb, streamId, flags, encs)
          [] type = FRAME_TYPES.REQUEST_RESPONSE ->
                deserializeRequestResponseFrame(bb, streamId, flags, encs)
          [] type = FRAME_TYPES.REQUEST_STREAM ->
                deserializeRequestStreamFrame(bb, streamId, flags, encs)
          [] type = FRAME_TYPES.REQUEST_CHANNEL ->
                deserializeRequestChannelFrame(bb, streamId, flags, encs)
          [] type = FRAME_TYPES.REQUEST_N ->
                deserializeRequestNFrame(bb, streamId, flags, encs)
          [] type = FRAME_TYPES.CANCEL ->
                deserializeCancelFrame(bb, streamId, flags, encs)
          [] type = FRAME_TYPES.LEASE ->
                deserializeLeaseFrame(bb, streamId, flags, encs)
          [] OTHER -> InvariantViolation

\* the frame, or the exception thrown
deserializeFrameWithLength(bb, encs) ==
    IF ~canRead(bb, 0, UINT24_SIZE) THEN RangeError
    ELSE
    LET frameLength == readUint24(bb, 0) IN
    IF ~sliceInRange(bb, UINT24_SIZE, UINT24_SIZE + frameLength) THEN RangeError
    ELSE deserializeFrame(slice(bb, UINT24_SIZE, UINT24_SIZE + frameLength), encs)

\* the end of serializeFrameWithLength: the prefix, then a copy of the frame
prefixLength(bb) ==
    IF isError(bb) THEN bb
    ELSE copyTo(bb, writeUint24(allocate(bb.limit + UINT24_SIZE), bb.limit, 0),
                UINT24_SIZE, 0, bb.limit)

\* the buffer, or the exception thrown
serializeFrameWithLength(f, encs) == prefixLength(serializeFrame(f, encs))

\* the end of the loop body: the frame is pushed and offset moves on,
\* unless deserializeFrame threw
pushFrame(fs, f, frameEnd) ==
    IF isError(f) THEN [pc |-> "throw", error |-> f]
    ELSE [pc |-> "loop", offset |-> frameEnd, frames |-> Append(fs, f)]

\* the loop body once the frame length is read
framesBody(bb, encs, off, fs, frameLength) ==
    IF off + UINT24_SIZE + frameLength > bb.limit
    THEN [pc |-> "return", offset |-> off, frames |-> fs]
    ELSE IF ~sliceInRange(bb, off + UINT24_SIZE, off + UINT24_SIZE + frameLength)
    THEN [pc |-> "throw", error |-> RangeError]
    ELSE pushFrame(fs,
            deserializeFrame(slice(bb, off + UINT24_SIZE,
                                   off + UINT24_SIZE + frameLength), encs),
            off + UINT24_SIZE + frameLength)

\* framesLoop that enters the body when exactly three bytes are left
framesLoop_threeLeft(bb, encs, off, fs) ==
    IF ~(off + UINT24_SIZE <= bb.limit)
    THEN [pc |-> "return", offset |-> off, frames |-> fs]
    ELSE IF ~canRead(bb, off, UINT24_SIZE)
    THEN [pc |-> "throw", error |-> RangeError]
    ELSE framesBody(bb, encs, off, fs, readUint24(bb, off))

\* deserializeFrames, one evaluation of the loop condition and body from
\* the locals (offset, frames): the next locals, the return or the throw
framesLoop(bb, encs, off, fs) ==
    IF ~(off + UINT24_SIZE < bb.limit)
    THEN [pc |-> "return", offset |-> off, frames |-> fs]
    ELSE IF ~canRead(bb, off, UINT24_SIZE)
    THEN [pc |-> "throw", error |-> RangeError]
    ELSE framesBody(bb, encs, off, fs, readUint24(bb, off))

\* the return statement with the whole buffer as leftover
framesReturn_wholeBuffer(bb, off, fs) ==
    [frames |-> fs, leftover |-> slice(bb, 0, bb.limit)]

\* the return statement of deserializeFrames
framesReturn(bb, off, fs) ==
    [frames |-> fs, leftover |-> slice(bb, off, bb.limit)]

RECURSIVE framesFrom(_, _, _)
framesFrom(bb, encs, step) ==
    IF step.pc = "throw" THEN step.error
    ELSE IF step.pc = "return" THEN framesReturn(bb, step.offset, step.frames)
    ELSE framesFrom(bb, encs, framesLoop(bb, encs, step.offset, step.frames))

\* [frames, leftover], or the exception thrown
deserializeFrames(bb, encs) ==
    framesFrom(bb, encs, [pc |-> "loop", offset |-> 0, frames |-> <<>>])

---------------------------------------------------------------------------
(* The inputs: frames a caller may hand to the serializers. *)

Chars == {97, 233}

Octets == {7, 200}

\* every sequence over the alphabet of length 0..n
Contents(alphabet, n) == UNION {[1..k -> alphabet] : k \in 0..n}

Values(encoder) ==
    IF encoder = "UTF8"
    THEN {[str |-> t] : t \in Contents(Chars, MaxLen)}
    ELSE {wrap(b) : b \in Contents(Octets, MaxLen)}

Optional(encoder) == {null} \cup Values(encoder)

\* 0x240000 is a stream id whose middle bytes read as a CANCEL type word
StreamIds == {0, 1, 2359296, -1}

\* none, METADATA, bits outside the known set, all ten bits
FlagsIn == {0, 256, 170, 1023}

RequestNs == {1, 2147483647, 0, -1}

Codes == {0, 513, 2147483647, -1}

EncoderSets == {Utf8Encoders, BufferEncoders}

\* resume tokens around the 16-bit length field, as ByteBuffers
LongTokenLengths == {32767, 32768, 65535, 65536}

LongTokens == {wrap([i \in 1..n |-> 7]) : n \in LongTokenLengths}

PayloadFrames(encs) ==
    [type : {FRAME_TYPES.PAYLOAD, FRAME_TYPES.REQUEST_FNF,
             FRAME_TYPES.REQUEST_RESPONSE},
     streamId : StreamIds, flags : FlagsIn,
     data : Optional(encs.data), metadata : Optional(encs.metadata)]

RequestManyFrames(encs) ==
    [type : {FRAME_TYPES.REQUEST_STREAM, FRAME_TYPES.REQUEST_CHANNEL},
     streamId : StreamIds, flags : FlagsIn, requestN : RequestNs,
     data : Optional(encs.data), metadata : Optional(encs.metadata)]

RequestNFrames ==
    [type : {FRAME_TYPES.REQUEST_N}, streamId : StreamIds, flags : FlagsIn,
     requestN : RequestNs]

CancelFrames ==
    [type : {FRAME_TYPES.CANCEL}, streamId : StreamIds, flags : FlagsIn]

ErrorFrames(encs) ==
    [type : {FRAME_TYPES.ERROR}, streamId : StreamIds, flags : FlagsIn,
     code : Codes, message : Optional(encs.message)]

KeepAliveFrames(encs) ==
    [type : {FRAME_TYPES.KEEPALIVE}, streamId : StreamIds, flags : FlagsIn,
     lastReceivedPosition : {0, 70000}, data : Optional(encs.data)]

LeaseFrames(encs) ==
    [type : {FRAME_TYPES.LEASE}, streamId : StreamIds, flags : FlagsIn,
     ttl : {0, 70000}, requestCount : {1, 2147483647},
     metadata : Optional(encs.metadata)]

\* the SETUP fields after the header, varied one group at a time
SetupParts(encs) ==
    [majorVersion : {1}, minorVersion : {0}, keepAlive : {60000},
     lifetime : {180000}, resumeToken : Optional(encs.resumeToken),
     metadataMimeType : {[str |-> <<97>>]}, dataMimeType : {[str |-> <<233>>]}]
    \cup
    [majorVersion : {1, 65535}, minorVersion : {0},
     keepAlive : {0, 2147483647, -1}, lifetime : {0, 2147483647, -1},
     resumeToken : {null},
     metadataMimeType : {[str |-> <<97>>]}, dataMimeType : {[str |-> <<233>>]}]
    \cup
    [majorVersion : {1}, minorVersion : {0}, keepAlive : {60000},
     lifetime : {180000}, resumeToken : {null},
     metadataMimeType : Optional(encs.metadataMimeType),
     dataMimeType : Optional(encs.dataMimeType)]

SetupFrames(encs) ==
    {[type |-> FRAME_TYPES.SETUP, streamId |-> sid, flags |-> fl,
      data |-> d, metadata |-> m,
      majorVersion |-> p.majorVersion, minorVersion |-> p.minorVersion,
      keepAlive |-> p.keepAlive, lifetime |-> p.lifetime,
      resumeToken |-> p.resumeToken,
      metadataMimeType |-> p.metadataMimeType,
      dataMimeType |-> p.dataMimeType] :
        sid \in {0, 1, -1}, fl \in FlagsIn, d \in Optional(encs.data),
        m \in Optional(encs.metadata), p \in SetupParts(encs)}

\* SETUP frames with a long resume token
LongTokenFrames ==
    {[type |-> FRAME_TYPES.SETUP, streamId |-> 0, flags |-> 0,
      data |-> null, metadata |-> null,
      majorVersion |-> 1, minorVersion |-> 0,
      keepAlive |-> 60000, lifetime |-> 180000, resumeToken |-> t,
      metadataMimeType |-> [str |-> <<97>>], dataMimeType |-> null] :
        t \in LongTokens}

\* frames whose type is none of the eleven kinds
UnsupportedFrames ==
    [type : {0, 12, 63}, streamId : {0, 1, -1}, flags : {0, 256}]

Frames(encs) ==
    PayloadFrames(encs) \cup RequestManyFrames(encs) \cup RequestNFrames
    \cup CancelFrames \cup ErrorFrames(encs) \cup KeepAliveFrames(encs)
    \cup LeaseFrames(encs) \cup SetupFrames(encs) \cup UnsupportedFrames
    \cup (IF encs = BufferEncoders THEN LongTokenFrames ELSE {})

---------------------------------------------------------------------------
(* The codec as a state machine. *)

Init ==
    /\ pc = "idle"
    /\ frame = null
    /\ encoders = null
    /\ buffer = null
    /\ result = null
    /\ stream = <<>>
    /\ input = <<>>
    /\ fed = 0
    /\ loopOffset = 0
    /\ frames = <<>>
    /\ received = <<>>
    /\ call = null

\* a caller serializes a frame
SerializeFrame ==
    /\ pc = "idle"
    /\ \E encs \in EncoderSets : \E f \in Frames(encs) :
        /\ frame' = f
        /\ encoders' = encs
        /\ buffer' = serializeFrame(f, encs)
    /\ pc' = "serialized"
    /\ result' = null
    /\ UNCHANGED <<framerVars, call>>

\* a caller serializes a frame without naming the encoders
SerializeFrameDefault ==
    /\ pc = "idle"
    /\ \E f \in CancelFrames \cup ErrorFrames(Utf8Encoders) :
        /\ frame' = f
        /\ buffer' = serializeFrame(f, null)
    /\ encoders' = null
    /\ pc' = "serialized"
    /\ result' = null
    /\ UNCHANGED <<framerVars, call>>

\* a transport delivers a frame whose type word is none of the eleven kinds
ReceiveUnsupported ==
    /\ pc = "idle"
    /\ \E f \in UnsupportedFrames : \E encs \in EncoderSets :
        /\ buffer' = writeHeader(f, allocate(FRAME_HEADER_SIZE + 4))
        /\ encoders' = encs
    /\ frame' = null
    /\ pc' = "serialized"
    /\ result' = null
    /\ UNCHANGED <<framerVars, call>>

\* the buffer of a serialized frame is parsed
DeserializeFrame ==
    /\ pc = "serialized"
    /\ ~isError(buffer)
    /\ result' = deserializeFrame(buffer, encoders)
    /\ pc' = "deserialized"
    /\ UNCHANGED <<frame, encoders, buffer>>
    /\ UNCHANGED <<framerVars, call>>

\* a caller serializes a frame with its length prefix
SerializeFrameWithLength ==
    /\ pc = "idle"
    /\ \E encs \in EncoderSets :
       \E f \in PayloadFrames(encs) \cup RequestNFrames \cup CancelFrames
                \cup ErrorFrames(encs) \cup UnsupportedFrames :
        /\ frame' = f
        /\ encoders' = encs
        /\ buffer' = serializeFrameWithLength(f, encs)
    /\ pc' = "lengthPrefixed"
    /\ result' = null
    /\ UNCHANGED <<framerVars, call>>

\* the length-prefixed buffer is parsed
DeserializeFrameWithLength ==
    /\ pc = "lengthPrefixed"
    /\ ~isError(buffer)
    /\ result' = deserializeFrameWithLength(buffer, encoders)
    /\ pc' = "deserializedWithLength"
    /\ UNCHANGED <<frame, encoders, buffer>>
    /\ UNCHANGED <<framerVars, call>>

Next ==
    \/ SerializeFrame
    \/ SerializeFrameDefault
    \/ ReceiveUnsupported
    \/ DeserializeFrame
    \/ SerializeFrameWithLength
    \/ DeserializeFrameWithLength

Spec == Init /\ [][Next]_vars

---------------------------------------------------------------------------
(* The stream framer as a state machine: a peer writes length-prefixed     *)
(* frames, the transport delivers the bytes in chunks, and after each      *)
(* chunk the caller runs deserializeFrames on the leftover of the last     *)
(* call followed by the chunk.                                             *)

\* the frames a peer writes: CANCEL on stream 1 and on stream 0x240000, a
\* CANCEL on stream 0 (which no parser may accept), REQUEST_N, and a
\* PAYLOAD with metadata and data
FramerFrames(encs) ==
    [type : {FRAME_TYPES.CANCEL}, streamId : {1, 2359296, 0}, flags : {0}]
    \cup
    [type : {FRAME_TYPES.REQUEST_N}, streamId : {1}, flags : {0},
     requestN : {1}]
    \cup
    [type : {FRAME_TYPES.PAYLOAD}, streamId : {1}, flags : {FLAGS_METADATA},
     data : Values(encs.data) \ {[str |-> <<>>], wrap(<<>>)},
     metadata : {CHOOSE v \in Values(encs.metadata) : byteLength(encs.metadata, v) = 1}]

Streams(encs) == UNION {[1..n -> FramerFrames(encs)] : n \in 0..MaxFrames}

\* the bytes of the length-prefixed frames, one after the other
RECURSIVE wireOf(_, _)
wireOf(fs, encs) ==
    IF fs = <<>> THEN <<>>
    ELSE serializeFrameWithLength(Head(fs), encs).bytes \o wireOf(Tail(fs), encs)

\* ByteBuffer.concat([leftover, chunk]): a new buffer of both contents
concat(leftover, chunk) == wrap(contents(leftover) \o chunk)

\* a peer writes its frames on a new connection
Connect ==
    /\ pc = "idle"
    /\ \E encs \in EncoderSets : \E fs \in Streams(encs) :
        /\ stream' = fs
        /\ encoders' = encs
        /\ input' = wireOf(fs, encs)
    /\ pc' = "connected"
    /\ result' = [frames |-> <<>>, leftover |-> wrap(<<>>)]
    /\ UNCHANGED <<call, frame, buffer, fed, loopOffset, frames, received>>

\* the transport delivers the next chunk and deserializeFrames is entered
Receive ==
    /\ pc \in {"connected", "returned"}
    /\ \E k \in (IF pc = "connected" THEN 0 ELSE 1)..(Len(input) - fed) :
        /\ buffer' = concat(result.leftover, SubSeq(input, fed + 1, fed + k))
        /\ fed' = fed + k
    /\ loopOffset' = 0
    /\ frames' = <<>>
    /\ pc' = "loop"
    /\ UNCHANGED <<call, frame, encoders, result, stream, input, received>>

\* the loop body runs to its end: one more frame
ParseFrame ==
    /\ pc = "loop"
    /\ \E step \in {framesLoop(buffer, encoders, loopOffset, frames)} :
        /\ step.pc = "loop"
        /\ loopOffset' = step.offset
        /\ frames' = step.frames
    /\ UNCHANGED <<call, pc, frame, encoders, buffer, result, stream, input, fed,
                   received>>

\* deserializeFrame throws inside the loop: deserializeFrames throws
ThrowFrames ==
    /\ pc = "loop"
    /\ \E step \in {framesLoop(buffer, encoders, loopOffset, frames)} :
        /\ step.pc = "throw"
        /\ result' = step.error
    /\ pc' = "thrown"
    /\ UNCHANGED <<call, frame, encoders, buffer, stream, input, fed, loopOffset,
                   frames, received>>

\* the loop ends or breaks: deserializeFrames returns
ReturnFrames ==
    /\ pc = "loop"
    /\ framesLoop(buffer, encoders, loopOffset, frames).pc = "return"
    /\ result' = framesReturn(buffer, loopOffset, frames)
    /\ received' = received \o frames
    /\ pc' = "returned"
    /\ UNCHANGED <<call, frame, encoders, buffer, stream, input, fed, loopOffset,
                   frames>>

FramerNext ==
    \/ Connect
    \/ Receive
    \/ ParseFrame
    \/ ThrowFrames
    \/ ReturnFrames

FramerSpec == Init /\ [][FramerNext]_vars

---------------------------------------------------------------------------
(* The buffer utilities as a state machine: writeUint24, then readUint24 at *)
(* the same offset.                                                        *)

\* values around every byte boundary, and past 24 and 31 bits
Uint24Values ==
    {0, 1, 255, 256, 65535, 65536, 11259375, 16777215, 16777216, 16777217,
     305419896, 2147483647}

\* the buffers the utilities are called on
UtilBuffers == {wrap(bs) : bs \in [1..MaxCapacity -> {0, 255}]}

\* a caller writes a 24-bit value; an offset near the end grows the buffer
WriteUint24 ==
    /\ pc = "idle"
    /\ \E bb \in UtilBuffers : \E value \in Uint24Values :
       \E offset \in 0..(MaxCapacity - 1) :
        /\ call' = [buffer |-> bb, value |-> value, offset |-> offset]
        /\ buffer' = writeUint24(bb, value, offset)
    /\ pc' = "written"
    /\ UNCHANGED <<frame, encoders, result, framerVars>>

\* the caller reads the value back
ReadUint24 ==
    /\ pc = "written"
    /\ result' = readUint24(buffer, call.offset)
    /\ pc' = "read"
    /\ UNCHANGED <<frame, encoders, buffer, call, framerVars>>

Uint24Next ==
    \/ WriteUint24
    \/ ReadUint24

Uint24Spec == Init /\ [][Uint24Next]_vars

---------------------------------------------------------------------------
(* The frame header as a state machine: writeHeader, then the head of      *)
(* deserializeFrame on the same buffer.                                     *)

\* every 6-bit type, every 10-bit flags; 16909060 is 0x01020304
Headers == [type : 0..63, flags : 0..1023, streamId : {0, 1, 16909060}]

\* a serializer writes the header of its frame into a new buffer
WriteHeader ==
    /\ pc = "idle"
    /\ \E f \in Headers :
        /\ frame' = f
        /\ buffer' = writeHeader(f, allocate(FRAME_HEADER_SIZE))
    /\ pc' = "headerWritten"
    /\ UNCHANGED <<encoders, result, call, framerVars>>

\* deserializeFrame reads the header
ReadHeader ==
    /\ pc = "headerWritten"
    /\ result' = readHeader(buffer)
    /\ pc' = "headerRead"
    /\ UNCHANGED <<frame, encoders, buffer, call, framerVars>>

HeaderNext ==
    \/ WriteHeader
    \/ ReadHeader

HeaderSpec == Init /\ [][HeaderNext]_vars

---------------------------------------------------------------------------
(* deserializeFrames on any bytes a connection may deliver: one call on a  *)
(* buffer made of length-prefixed pieces, cut anywhere.                     *)

\* two length-prefixed CANCEL frames, a length prefix of 0, and a length
\* prefix of 0x012400, more than any buffer here holds
RawPieces ==
    {serializeFrameWithLength(
        [type |-> FRAME_TYPES.CANCEL, streamId |-> sid, flags |-> 0],
        Utf8Encoders).bytes : sid \in {1, 2359296}}
    \cup {<<0, 0, 0>>, <<1, 36, 0>>}

\* the pieces one after the other
RECURSIVE flatten(_)
flatten(ps) == IF ps = <<>> THEN <<>> ELSE Head(ps) \o flatten(Tail(ps))

\* every prefix of up to MaxFrames pieces
RawInputs ==
    UNION {{SubSeq(flatten(ps), 1, n) : n \in 0..Len(flatten(ps))} :
            ps \in UNION {[1..k -> RawPieces] : k \in 0..MaxFrames}}

\* the transport hands a buffer to deserializeFrames
ReceiveRaw ==
    /\ pc = "idle"
    /\ \E raw \in RawInputs :
        /\ input' = raw
        /\ fed' = Len(raw)
        /\ buffer' = wrap(raw)
    /\ loopOffset' = 0
    /\ frames' = <<>>
    /\ pc' = "loop"
    /\ UNCHANGED <<call, frame, encoders, result, stream, received>>

LoopNext ==
    \/ ReceiveRaw
    \/ ParseFrame
    \/ ThrowFrames
    \/ ReturnFrames

LoopSpec == Init /\ [][LoopNext]_vars

\* the loop runs on: a call that can take a step takes it
LoopLive ==
    /\ LoopSpec
    /\ WF_vars(ParseFrame)
    /\ WF_vars(ThrowFrames)
    /\ WF_vars(ReturnFrames)

---------------------------------------------------------------------------
(* Vocabulary of the properties. *)

ValueFields ==
    {"data", "metadata", "resumeToken", "metadataMimeType", "dataMimeType",
     "message"}

PayloadTypes ==
    {FRAME_TYPES.SETUP, FRAME_TYPES.REQUEST_FNF, FRAME_TYPES.REQUEST_RESPONSE,
     FRAME_TYPES.REQUEST_STREAM, FRAME_TYPES.REQUEST_CHANNEL,
     FRAME_TYPES.PAYLOAD}

ConnectionTypes == {FRAME_TYPES.SETUP, FRAME_TYPES.KEEPALIVE, FRAME_TYPES.LEASE}

SupportedTypes == 1..11

\* a field value by what it holds: a ByteBuffer view by its bytes
contentOf(value) == IF isByteBuffer(value) THEN wrap(contents(value)) ELSE value

\* a frame with every field by what it holds
canon(f) ==
    [k \in DOMAIN f |-> IF k \in ValueFields THEN contentOf(f[k]) ELSE f[k]]

\* equal on every field
sameFrame(f, g) == canon(f) = canon(g)

\* number of bytes a field value holds, 0 for null
sizeOf(value) ==
    IF isNull(value) THEN 0
    ELSE IF isString(value) THEN Len(encodeUTF8(value.str))
    ELSE Len(contents(value))

\* section 3.1 of the specification: what a valid frame is
ValidFrame(f) ==
    /\ f.type \in SupportedTypes
    /\ f.flags \in 0..1023
    /\ IF f.type \in ConnectionTypes THEN f.streamId = 0 ELSE f.streamId > 0
    /\ "requestN" \in DOMAIN f => f.requestN > 0
    /\ "code" \in DOMAIN f => f.code >= 0
    /\ "keepAlive" \in DOMAIN f => (f.keepAlive >= 0 /\ f.lifetime >= 0)
    /\ "resumeToken" \in DOMAIN f =>
            /\ sizeOf(f.resumeToken) <= 65535
            /\ sizeOf(f.metadataMimeType) <= 255
            /\ sizeOf(f.dataMimeType) <= 255

\* the empty value of an encoder's type
emptyOf(encoder) == IF encoder = "UTF8" THEN [str |-> <<>>] ELSE wrap(<<>>)

\* what the wire format can carry of a frame: an absent or empty data is
\* null; metadata is null unless the METADATA flag is set and it is not
\* empty (LEASE: unless it is not empty); an absent resume token, mime type
\* or message is the empty value
carried(f, encs) ==
    [k \in DOMAIN f |->
        IF k = "data"
        THEN IF sizeOf(f[k]) = 0 THEN null ELSE contentOf(f[k])
        ELSE IF k = "metadata"
        THEN IF sizeOf(f[k]) = 0 \/ (f.type \in PayloadTypes /\ ~isMetadata(f.flags))
             THEN null ELSE contentOf(f[k])
        ELSE IF k = "resumeToken"
        THEN IF isNull(f[k]) THEN emptyOf(encs.resumeToken) ELSE contentOf(f[k])
        ELSE IF k \in {"metadataMimeType", "dataMimeType", "message"}
        THEN IF isNull(f[k]) THEN [str |-> <<>>] ELSE f[k]
        ELSE f[k]]

\* the encoders a call used
used(encs) == IF isNull(encs) THEN Utf8Encoders ELSE encs

---------------------------------------------------------------------------
(* C1 *)

\* C1: parsing the serialization of a valid frame raises nothing and yields
\* the frame, equal on every field: streamId, type, the ten flag bits, the
\* fixed fields and the optional fields; the fields are compared up to what
\* the wire can tell apart (carried), so that only a frame that does not come
\* back at all, or comes back with other contents, breaks the statement
C1_RoundTrip ==
    (pc = "deserialized" /\ ~isNull(frame) /\ ValidFrame(frame))
        => (~isError(result) /\ canon(result) = carried(frame, used(encoders)))

---------------------------------------------------------------------------
(* C2 - C5: the stream framer and the length prefix *)

\* every frame the peer wrote is valid
ValidStream == \A i \in 1..Len(stream) : ValidFrame(stream[i])

\* where the j-th frame of the stream ends in the input
endOf(j) == Len(wireOf(SubSeq(stream, 1, j), encoders))

\* the frames of the stream that lie wholly in the first n bytes of the input
completeIn(n) ==
    CHOOSE j \in 0..Len(stream) :
        /\ endOf(j) <= n
        /\ j < Len(stream) => endOf(j + 1) > n

\* the call that just ended was deserializeFrames on the first fed bytes
CallOnPrefix ==
    /\ pc \in {"returned", "thrown"}
    /\ buffer.bytes = SubSeq(input, 1, fed)

\* the frames are those of the list, in that order
sameFrames(fs, gs) ==
    /\ Len(fs) = Len(gs)
    /\ \A i \in 1..Len(fs) : sameFrame(fs[i], gs[i])

\* C2 as stated: deserializeFrames on the concatenation of the
\* length-prefixed valid frames F1..Fn returns exactly [F1, ..., Fn] and an
\* empty leftover
C2_FramerCompleteness ==
    (CallOnPrefix /\ fed = Len(input) /\ ValidStream)
        => /\ pc = "returned"
           /\ sameFrames(result.frames, stream)
           /\ contents(result.leftover) = <<>>

\* C3 as stated: whatever the cuts, the frames of the calls on (leftover ++
\* chunk) are together the frames of deserializeFrames on the whole input,
\* and the last leftover is its leftover
C3_ChunkIndependence ==
    (/\ pc \in {"returned", "thrown"} /\ fed = Len(input) /\ ValidStream
     /\ ~isError(deserializeFrames(wrap(input), encoders)))
        => /\ pc = "returned"
           /\ sameFrames(received,
                         deserializeFrames(wrap(input), encoders).frames)
           /\ contents(result.leftover)
                = contents(deserializeFrames(wrap(input), encoders).leftover)

\* C4 as stated: on a buffer that ends inside a frame, deserializeFrames
\* throws nothing, returns the complete frames before it, and the leftover
\* starts at the first byte of the incomplete frame's length prefix
C4_TruncatedIsLeftover ==
    (CallOnPrefix /\ ValidStream /\ endOf(completeIn(fed)) < fed)
        => /\ pc = "returned"
           /\ sameFrames(result.frames, SubSeq(stream, 1, completeIn(fed)))
           /\ contents(result.leftover)
                = SubSeq(input, endOf(completeIn(fed)) + 1, fed)

\* C5 as stated, for the frames that serializeFrame and deserializeFrame
\* take round: the length-prefixed buffer is the 24-bit big-endian length of
\* serializeFrame(f) followed by serializeFrame(f), and
\* deserializeFrameWithLength returns a frame equal to f
C5_LengthPrefixRoundTrip ==
    (/\ pc = "deserializedWithLength" /\ ValidFrame(frame)
     /\ sameFrame(deserializeFrame(serializeFrame(frame, encoders), encoders),
                  frame))
        => /\ Len(buffer.bytes)
                = Len(serializeFrame(frame, encoders).bytes) + 3
           /\ readUint24(buffer, 0) = Len(serializeFrame(frame, encoders).bytes)
           /\ SubSeq(buffer.bytes, 4, Len(buffer.bytes))
                = serializeFrame(frame, encoders).bytes
           /\ ~isError(result)
           /\ sameFrame(result, frame)

---------------------------------------------------------------------------
(* C6 - C9: the invariants of the parser *)

\* the stream id and the type that the header of a buffer carries
headerStreamId(bb) == readInt32(bb, 0)
headerType(bb) == readUint16(bb, 4) \div 1024

\* the types whose frames belong to a stream, without ERROR
RequestTypes ==
    {FRAME_TYPES.REQUEST_FNF, FRAME_TYPES.REQUEST_RESPONSE,
     FRAME_TYPES.REQUEST_STREAM, FRAME_TYPES.REQUEST_CHANNEL,
     FRAME_TYPES.REQUEST_N, FRAME_TYPES.PAYLOAD, FRAME_TYPES.CANCEL}

\* C6 as stated: deserializeFrame raises an invariant violation for every
\* frame whose header carries streamId 0 and a type among REQUEST_FNF,
\* REQUEST_RESPONSE, REQUEST_STREAM, REQUEST_CHANNEL, REQUEST_N, PAYLOAD,
\* CANCEL and ERROR
C6_ZeroStreamIdRejected ==
    (/\ pc = "deserialized" /\ headerStreamId(buffer) = 0
     /\ headerType(buffer) \in RequestTypes \cup {FRAME_TYPES.ERROR})
        => result = InvariantViolation

\* C6 as amended: deserializeFrame raises an invariant violation for every
\* frame whose header carries streamId 0 and a type among REQUEST_FNF,
\* REQUEST_RESPONSE, REQUEST_STREAM, REQUEST_CHANNEL, REQUEST_N, PAYLOAD and
\* CANCEL; an ERROR frame with streamId 0 is not rejected for its stream id:
\* it is returned, with streamId 0, whenever its code is not negative
C6_ZeroStreamId ==
    (pc = "deserialized" /\ headerStreamId(buffer) = 0)
        => /\ headerType(buffer) \in RequestTypes
                => result = InvariantViolation
           /\ headerType(buffer) = FRAME_TYPES.ERROR
                => IF readInt32(buffer, FRAME_HEADER_SIZE) < 0
                   THEN result = InvariantViolation
                   ELSE /\ ~isError(result)
                        /\ result.type = FRAME_TYPES.ERROR
                        /\ result.streamId = 0
                        /\ result.code = readInt32(buffer, FRAME_HEADER_SIZE)

\* C6: a REQUEST_STREAM frame, valid but for its stream id 0, was rejected
C6_Witness ==
    /\ pc = "deserialized" /\ ~isNull(frame)
    /\ frame.type = FRAME_TYPES.REQUEST_STREAM
    /\ frame.streamId = 0 /\ frame.requestN > 0
    /\ result = InvariantViolation

\* C7: deserializeFrame raises an invariant violation for every SETUP,
\* KEEPALIVE or LEASE frame whose header streamId is not 0, and for every
\* frame, whatever its type word, whose stream id is negative; the latter is
\* raised before the type is looked at: the four bytes of the stream id alone
\* already raise it
C7_ConnectionStreamId ==
    pc = "deserialized"
        => /\ (headerType(buffer) \in ConnectionTypes
               /\ headerStreamId(buffer) # 0)
                => result = InvariantViolation
           /\ headerStreamId(buffer) < 0
                => /\ result = InvariantViolation
                   /\ deserializeFrame(wrap(SubSeq(buffer.bytes, 1, 4)),
                                       encoders) = InvariantViolation

\* C7: a KEEPALIVE frame on stream 1 was rejected
C7_Witness ==
    /\ pc = "deserialized" /\ ~isNull(frame)
    /\ frame.type = FRAME_TYPES.KEEPALIVE /\ frame.streamId = 1
    /\ result = InvariantViolation

\* C8 as stated: a SETUP frame, valid in its other fields, whose resume
\* token is L bytes long is parsed back with the same token when
\* 0 <= L <= 65535, and parsing raises an invariant violation when L = 65536
C8_ResumeTokenBound ==
    (/\ pc = "deserialized" /\ ~isNull(frame)
     /\ frame.type = FRAME_TYPES.SETUP /\ frame.streamId = 0
     /\ frame.keepAlive >= 0 /\ frame.lifetime >= 0)
        => IF sizeOf(frame.resumeToken) <= MAX_RESUME_LENGTH
           THEN /\ ~isError(result)
                /\ contentOf(result.resumeToken)
                     = carried(frame, used(encoders)).resumeToken
           ELSE result = InvariantViolation

\* a frame of the stream that lies wholly in the buffer breaks an invariant
\* of the parser
BrokenFrameIn(n) ==
    \E i \in 1..completeIn(n) :
        deserializeFrame(serializeFrame(stream[i], encoders), encoders)
            = InvariantViolation

\* C9 as stated, for the framer: when a frame of the buffer fails a
\* parse-time invariant, deserializeFrames raises that invariant violation
\* and returns neither frames nor leftover, whatever precedes the frame
C9_FailuresSurface ==
    (CallOnPrefix /\ BrokenFrameIn(fed))
        => (pc = "thrown" /\ result = InvariantViolation)

---------------------------------------------------------------------------
(* C10: the payload section that serializeFrame writes *)

\* the bytes of a field value: none for null
bytesOf(value) ==
    IF isNull(value) THEN <<>>
    ELSE IF isString(value) THEN encodeUTF8(value.str)
    ELSE contents(value)

\* a length as three bytes, most significant first
bigEndian24(n) == <<n \div 65536, (n \div 256) % 256, n % 256>>

\* where the payload section of a frame starts in its buffer
sectionStart(f) ==
    IF f.type = FRAME_TYPES.SETUP
    THEN FRAME_HEADER_SIZE + SETUP_FIXED_SIZE + sizeOf(f.resumeToken)
         + sizeOf(f.metadataMimeType) + sizeOf(f.dataMimeType)
    ELSE IF f.type \in {FRAME_TYPES.REQUEST_STREAM, FRAME_TYPES.REQUEST_CHANNEL}
    THEN FRAME_HEADER_SIZE + REQUEST_MANY_HEADER
    ELSE FRAME_HEADER_SIZE

\* the payload section a frame is to have
expectedSection(f) ==
    IF isMetadata(f.flags)
    THEN bigEndian24(sizeOf(f.metadata)) \o bytesOf(f.metadata) \o bytesOf(f.data)
    ELSE bytesOf(f.data)

\* C10: for SETUP, REQUEST_FNF, REQUEST_RESPONSE, REQUEST_STREAM,
\* REQUEST_CHANNEL and PAYLOAD, the bytes that serializeFrame writes after the
\* fixed fields are, with the METADATA flag, the 3-byte big-endian metadata
\* length (0 for an absent metadata), the metadata bytes and the data bytes,
\* and without it the data bytes only, a present metadata being dropped;
\* they are getPayloadLength bytes, and the buffer ends with them: its limit
\* and its capacity are the start of the section plus getPayloadLength
C10_PayloadSection ==
    (/\ pc = "serialized" /\ ~isNull(frame) /\ frame.type \in PayloadTypes)
        => /\ ~isError(buffer)
           /\ buffer.offset = 0
           /\ buffer.limit
                = sectionStart(frame) + getPayloadLength(frame, used(encoders))
           /\ capacity(buffer) = buffer.limit
           /\ SubSeq(buffer.bytes, sectionStart(frame) + 1, capacity(buffer))
                = expectedSection(frame)

\* C10: a REQUEST_CHANNEL frame with the METADATA flag, metadata and data was
\* serialized
C10_Witness ==
    /\ pc = "serialized" /\ ~isNull(frame)
    /\ frame.type = FRAME_TYPES.REQUEST_CHANNEL
    /\ isMetadata(frame.flags)
    /\ sizeOf(frame.metadata) > 0 /\ sizeOf(frame.data) > 0
    /\ Len(expectedSection(frame)) = 3 + sizeOf(frame.metadata) + sizeOf(frame.data)

---------------------------------------------------------------------------
(* C11: the payload section that deserializeFrame reads *)

\* where the payload section starts in the buffer of a frame, from the
\* lengths the buffer holds
wireSetupMimeEnd(bb, at) == at + 1 + readUint8(bb, at)

wireSectionStart(bb) ==
    IF headerType(bb) = FRAME_TYPES.SETUP
    THEN wireSetupMimeEnd(bb,
            wireSetupMimeEnd(bb, FRAME_HEADER_SIZE + 14
                                 + readUint16(bb, FRAME_HEADER_SIZE + 12)))
    ELSE IF headerType(bb) \in {FRAME_TYPES.REQUEST_STREAM,
                                FRAME_TYPES.REQUEST_CHANNEL}
    THEN FRAME_HEADER_SIZE + REQUEST_MANY_HEADER
    ELSE FRAME_HEADER_SIZE

\* the bytes of the payload section of a buffer
wireSection(bb) == SubSeq(bb.bytes, wireSectionStart(bb) + 1, bb.limit)

\* a field of a parsed frame holds these bytes, or is null when there are none
holds(value, bs) ==
    IF bs = <<>> THEN isNull(value)
    ELSE ~isNull(value) /\ bytesOf(value) = bs

\* the metadata length a section starts with
sectionLength(sec) == sec[1] * 65536 + sec[2] * 256 + sec[3]

\* the frame has the metadata and the data of the section
readsSection(f, sec, flagged) ==
    IF flagged
    THEN /\ Len(sec) >= 3 + sectionLength(sec)
         /\ holds(f.metadata, SubSeq(sec, 4, 3 + sectionLength(sec)))
         /\ holds(f.data, SubSeq(sec, 4 + sectionLength(sec), Len(sec)))
    ELSE isNull(f.metadata) /\ holds(f.data, sec)

\* C11: a SETUP, REQUEST_FNF, REQUEST_RESPONSE, REQUEST_STREAM,
\* REQUEST_CHANNEL or PAYLOAD frame that deserializeFrame returns has, with
\* the METADATA flag set, the M bytes after the 24-bit length M as metadata
\* (null when M = 0) and all bytes after them as data (null when there are
\* none); with the flag clear it has metadata null and all bytes after the
\* fixed part as data (null when there are none); and a valid frame of the
\* five kinds other than SETUP is returned
C11_PayloadOnParse ==
    (pc = "deserialized" /\ headerType(buffer) \in PayloadTypes)
        => /\ ~isError(result)
                => readsSection(result, wireSection(buffer),
                                isMetadata(readUint16(buffer, 4) % 1024))
           /\ (/\ ~isNull(frame) /\ ValidFrame(frame)
               /\ frame.type # FRAME_TYPES.SETUP) => ~isError(result)

\* C11: a REQUEST_FNF frame with the METADATA flag, metadata and data was
\* parsed
C11_Witness ==
    /\ pc = "deserialized" /\ ~isNull(frame)
    /\ frame.type = FRAME_TYPES.REQUEST_FNF
    /\ isMetadata(frame.flags)
    /\ sizeOf(frame.metadata) > 0 /\ sizeOf(frame.data) > 0
    /\ ~isError(result)
    /\ ~isNull(result.metadata) /\ ~isNull(result.data)

---------------------------------------------------------------------------
(* C12: the ranges of the 32-bit fields *)

\* the 32-bit field at an offset of the buffer, as a signed number
wireInt32(bb, at) == readInt32(bb, at)

\* the types that carry a requestN
RequestNTypes ==
    {FRAME_TYPES.REQUEST_STREAM, FRAME_TYPES.REQUEST_CHANNEL,
     FRAME_TYPES.REQUEST_N}

\* C12: deserializeFrame raises an invariant violation for a REQUEST_STREAM,
\* REQUEST_CHANNEL or REQUEST_N frame whose requestN, read as a signed
\* int32, is <= 0, for a SETUP frame whose keepAlive or lifetime is negative
\* and for an ERROR frame whose code is negative; a field inside its range
\* is accepted: the frame is returned with that value whenever the other
\* checks of its parser pass (the stream id rule, the 16-bit resume token
\* length read as not negative)
C12_RangeValidation ==
    (pc = "deserialized" /\ headerStreamId(buffer) >= 0)
        => /\ headerType(buffer) \in RequestNTypes
                => IF wireInt32(buffer, FRAME_HEADER_SIZE) <= 0
                   THEN result = InvariantViolation
                   ELSE headerStreamId(buffer) > 0
                            => /\ ~isError(result)
                               /\ result.requestN
                                    = wireInt32(buffer, FRAME_HEADER_SIZE)
           /\ headerType(buffer) = FRAME_TYPES.ERROR
                => IF wireInt32(buffer, FRAME_HEADER_SIZE) < 0
                   THEN result = InvariantViolation
                   ELSE /\ ~isError(result)
                        /\ result.code = wireInt32(buffer, FRAME_HEADER_SIZE)
           /\ headerType(buffer) = FRAME_TYPES.SETUP
                => IF \/ wireInt32(buffer, FRAME_HEADER_SIZE + 4) < 0
                      \/ wireInt32(buffer, FRAME_HEADER_SIZE + 8) < 0
                   THEN result = InvariantViolation
                   ELSE (/\ headerStreamId(buffer) = 0
                         /\ readInt16(buffer, FRAME_HEADER_SIZE + 12) >= 0)
                            => /\ ~isError(result)
                               /\ result.keepAlive
                                    = wireInt32(buffer, FRAME_HEADER_SIZE + 4)
                               /\ result.lifetime
                                    = wireInt32(buffer, FRAME_HEADER_SIZE + 8)

\* C12: a REQUEST_CHANNEL frame on stream 1 with requestN 0 was rejected
C12_Witness ==
    /\ pc = "deserialized" /\ ~isNull(frame)
    /\ frame.type = FRAME_TYPES.REQUEST_CHANNEL
    /\ frame.streamId = 1 /\ frame.requestN = 0
    /\ result = InvariantViolation

---------------------------------------------------------------------------
(* C13: the 24-bit integers *)

\* the bytes of the buffer that the write was not aimed at are the bytes
\* the buffer had
othersKept(before, after, offset) ==
    \A i \in 1..Len(before.bytes) :
        i \notin (offset + 1)..(offset + 3) => after.bytes[i] = before.bytes[i]

\* C13: writeUint24(buf, value, off) stores value mod 2^24 as three
\* big-endian bytes at off..off+2, changes no other byte of the buffer and
\* reports no error, also for a value of 2^24 or more; readUint24(buf, off)
\* then returns value mod 2^24, which is value itself below 2^24
C13_Uint24 ==
    (pc \in {"written", "read"})
        => /\ ~isError(buffer)
           /\ SubSeq(buffer.bytes, call.offset + 1, call.offset + 3)
                = bigEndian24(call.value % 16777216)
           /\ othersKept(call.buffer, buffer, call.offset)
           /\ buffer.offset = call.buffer.offset
           /\ buffer.limit = call.buffer.limit
           /\ pc = "read" => /\ result = call.value % 16777216
                             /\ call.value < 16777216 => result = call.value

\* C13: 2^24 + 1 was written over bytes of 255 and read back as 1
C13_Witness ==
    /\ pc = "read"
    /\ call.value = 16777217
    /\ call.offset = 0
    /\ call.buffer.bytes[1] = 255
    /\ result = 1

---------------------------------------------------------------------------
(* C14: the header *)

\* a 16-bit and a 32-bit number as bytes, most significant first
bigEndian16(n) == <<n \div 256, n % 256>>
bigEndian32(n) ==
    <<n \div 16777216, (n \div 65536) % 256, (n \div 256) % 256, n % 256>>

\* C14: for every type t in 0..63 and flags f in 0..1023, writeHeader
\* stores the stream id in bytes 0-3 and the big-endian word t * 1024 + f,
\* that is (t << 10) | f, in bytes 4-5, and the head of deserializeFrame
\* reads type t and flags f back: every one of the ten flag bits survives
C14_HeaderPacking ==
    (pc \in {"headerWritten", "headerRead"})
        => /\ ~isError(buffer)
           /\ buffer.bytes = bigEndian32(frame.streamId)
                               \o bigEndian16(frame.type * 1024 + frame.flags)
           /\ pc = "headerRead" => /\ ~isError(result)
                                   /\ result.type = frame.type
                                   /\ result.flags = frame.flags
                                   /\ result.streamId = frame.streamId

\* C14: a header of type 37 with flag bits the protocol does not name (21)
\* was written and read back
C14_Witness ==
    /\ pc = "headerRead"
    /\ frame.type = 37 /\ frame.flags = 21 /\ frame.streamId = 16909060
    /\ result.type = 37 /\ result.flags = 21

---------------------------------------------------------------------------
(* C15, C16: the loop of deserializeFrames *)

\* the length that the three bytes at an offset declare
declared(bs, off) == bs[off + 1] * 65536 + bs[off + 2] * 256 + bs[off + 3]

\* the offset just past the first n length-prefixed frames of the bytes
RECURSIVE pastFrames(_, _)
pastFrames(bs, n) ==
    IF n = 0 THEN 0
    ELSE pastFrames(bs, n - 1) + 3 + declared(bs, pastFrames(bs, n - 1))

\* the declared frame does not fit in what is left of the buffer
doesNotFit(bb, off) == off + 3 + declared(bb.bytes, off) > bb.limit

\* the loop stops at this evaluation of its condition and body
stops == framesLoop(buffer, encoders, loopOffset, frames).pc = "return"

\* C15 as stated: at every iteration offset is just past the frames parsed
\* so far, and the loop stops exactly when fewer than 3 bytes remain after
\* offset or the declared frame does not fit; otherwise, also with exactly 3
\* bytes left that declare length 0, it parses the next frame
C15_StopsBelowThree ==
    pc = "loop"
        => /\ loopOffset = pastFrames(buffer.bytes, Len(frames))
           /\ stops <=> \/ buffer.limit - loopOffset < 3
                        \/ doesNotFit(buffer, loopOffset)

\* C15 as amended: at every iteration offset is just past the frames parsed
\* so far, and the loop stops exactly when 3 bytes or fewer remain after
\* offset (offset + 3 >= buffer.limit) or the declared frame does not fit;
\* with exactly 3 bytes left it stops without reading them, whatever length
\* they declare; otherwise it slices and parses the next frame
C15_StopCondition ==
    pc = "loop"
        => /\ loopOffset = pastFrames(buffer.bytes, Len(frames))
           /\ stops <=> \/ buffer.limit - loopOffset <= 3
                        \/ doesNotFit(buffer, loopOffset)

\* C15: after one frame exactly three bytes are left and declare length 0:
\* the loop stops
C15_Witness ==
    /\ pc = "loop"
    /\ Len(frames) = 1
    /\ buffer.limit - loopOffset = 3
    /\ declared(buffer.bytes, loopOffset) = 0
    /\ stops

\* offset is inside the buffer, and the leftover returned is what the
\* buffer holds from offset on
OffsetInBuffer ==
    /\ pc \in {"loop", "returned"}
            => (loopOffset >= 0 /\ loopOffset <= buffer.limit)
    /\ pc = "returned"
            => contents(result.leftover)
                 = SubSeq(buffer.bytes, loopOffset + 1, buffer.limit)

\* an iteration that does not break moves offset on by 3 or more
Progress == ParseFrame => loopOffset' >= loopOffset + 3

\* C16: on every buffer deserializeFrames ends, by returning or by
\* throwing: every iteration that does not break moves offset on by at
\* least 3, offset never exceeds buffer.limit, and the leftover returned is
\* the rest of the buffer from the final offset
C16_Termination ==
    /\ []OffsetInBuffer
    /\ [][Progress]_vars
    /\ (pc = "loop") ~> (pc \in {"returned", "thrown"})

\* C16: a call parsed a frame of declared length 0, which moved offset on
\* by 3, and returned with the three bytes after it left over
C16_Witness ==
    /\ pc = "returned"
    /\ Len(frames) = 1
    /\ declared(buffer.bytes, 0) = 0
    /\ loopOffset = 3
    /\ contents(result.leftover) = <<1, 36, 0>>

=============================================================================
